---- MODULE Spec2Model ----
(***************************************************************************)
(* AutoDoc: the report pipeline of autodoc_engine.py (parse_excel,         *)
(* generate_pdf_report, log_report, run_pipeline) and the statistics view  *)
(* of app.py (stats), as a state machine over the activity log, the        *)
(* output directory and the local clock.                                   *)
(*                                                                         *)
(* Text is modelled as a sequence of one-character strings, so that        *)
(* str.strip, str.replace, str.split, slicing and strftime are computed    *)
(* and not assumed.  A Python dict is a sequence of <<key, value>> pairs   *)
(* in insertion order.                                                     *)
(***************************************************************************)
EXTENDS Integers, Sequences, FiniteSets, TLC

(***************************************************************************)
(* Bounds of the model.                                                    *)
(***************************************************************************)
\* seconds the local clock may advance during one behaviour
MaxClock == 2
\* calls of run_pipeline (or of log_report by a direct caller) per process
MaxRuns == 2
\* data rows of an enumerated worksheet
MaxRows == 2
\* columns of an enumerated worksheet
MaxCols == 2
\* records handed directly to generate_pdf_report
MaxRecords == 2

(***************************************************************************)
(* String literals of the source.                                          *)
(***************************************************************************)
S_report_id == <<"r", "e", "p", "o", "r", "t", "_", "i", "d">>
S_project == <<"p", "r", "o", "j", "e", "c", "t">>
S_component_count == <<"c", "o", "m", "p", "o", "n", "e", "n", "t", "_", "c", "o", "u", "n", "t">>
S_filepath == <<"f", "i", "l", "e", "p", "a", "t", "h">>
S_status == <<"s", "t", "a", "t", "u", "s">>
S_generated_at == <<"g", "e", "n", "e", "r", "a", "t", "e", "d", "_", "a", "t">>
S_Success == <<"S", "u", "c", "c", "e", "s", "s">>
S_Error == <<"E", "r", "r", "o", "r">>
OUTPUT_DIR == <<"g", "e", "n", "e", "r", "a", "t", "e", "d", "_", "r", "e", "p", "o", "r", "t", "s">>
S_pdf == <<".", "p", "d", "f">>
S_RPT == <<"R", "P", "T", "-">>
S_NA == <<"N", "/", "A">>
S_None == <<"N", "o", "n", "e">>
S_Unknown == <<"U", "n", "k", "n", "o", "w", "n">>
S_Status == <<"S", "t", "a", "t", "u", "s">>
S_Type == <<"T", "y", "p", "e">>
S_Approved == <<"A", "p", "p", "r", "o", "v", "e", "d">>
S_UnderReview == <<"U", "n", "d", "e", "r", " ", "R", "e", "v", "i", "e", "w">>
S_Pending == <<"P", "e", "n", "d", "i", "n", "g">>
S_TotalComponents == <<"T", "o", "t", "a", "l", " ", "C", "o", "m", "p", "o", "n", "e", "n", "t", "s">>
S_TypePrefix == <<"T", "y", "p", "e", ":", " ">>
S_DRAFT == <<"D", "R", "A", "F", "T">>
S_ReportGenerated == <<"R", "e", "p", "o", "r", "t", " ", "g", "e", "n", "e", "r", "a", "t", "e", "d", ":", " ">>
MonthNames ==
  << <<"J", "a", "n", "u", "a", "r", "y">>,
     <<"F", "e", "b", "r", "u", "a", "r", "y">>,
     <<"M", "a", "r", "c", "h">>,
     <<"A", "p", "r", "i", "l">>,
     <<"M", "a", "y">>,
     <<"J", "u", "n", "e">>,
     <<"J", "u", "l", "y">>,
     <<"A", "u", "g", "u", "s", "t">>,
     <<"S", "e", "p", "t", "e", "m", "b", "e", "r">>,
     <<"O", "c", "t", "o", "b", "e", "r">>,
     <<"N", "o", "v", "e", "m", "b", "e", "r">>,
     <<"D", "e", "c", "e", "m", "b", "e", "r">> >>
LogHeaderRow ==
  << S_report_id, S_project, S_component_count, S_filepath, S_status, S_generated_at >>

(***************************************************************************)
(* Python values: None, str and int.  An int carries its decimal digits,   *)
(* which is what str() and csv.writer make of it.                          *)
(***************************************************************************)
DigitChars == <<"0", "1", "2", "3", "4", "5", "6", "7", "8", "9">>

Digit(n) == DigitChars[n + 1]

RECURSIVE IntToStr(_)
IntToStr(n) ==
  IF n < 10 THEN <<Digit(n)>> ELSE IntToStr(n \div 10) \o <<Digit(n % 10)>>

DigitValue(c) == CHOOSE d \in 0..9 : DigitChars[d + 1] = c

RECURSIVE ParseInt(_)
ParseInt(s) ==
  IF s = <<>> THEN 0
  ELSE 10 * ParseInt(SubSeq(s, 1, Len(s) - 1)) + DigitValue(s[Len(s)])

NoneVal == [t |-> "none", v |-> <<>>]

StrVal(s) == [t |-> "str", v |-> s]

IntVal(n) == [t |-> "int", v |-> IntToStr(n)]

\* str(x)
PyStr(x) == IF x.t = "none" THEN S_None ELSE x.v

Whitespace == {" ", "\t"}

RECURSIVE lstrip(_)
lstrip(s) == IF s # <<>> /\ Head(s) \in Whitespace THEN lstrip(Tail(s)) ELSE s

RECURSIVE rstrip(_)
rstrip(s) ==
  IF s # <<>> /\ s[Len(s)] \in Whitespace
  THEN rstrip(SubSeq(s, 1, Len(s) - 1))
  ELSE s

\* str.strip()
strip(s) == rstrip(lstrip(s))

(***************************************************************************)
(* dict: insertion-ordered; assigning to a key that is present replaces    *)
(* its value and keeps its position.                                       *)
(***************************************************************************)
DictHas(d, k) == \E i \in 1..Len(d) : d[i][1] = k

DictGet(d, k, default) ==
  IF DictHas(d, k)
  THEN d[CHOOSE i \in 1..Len(d) : d[i][1] = k][2]
  ELSE default

\* mutant of DictSet: a key that is present keeps its value (setdefault)
DictSetDefault(d, k, val) ==
  IF DictHas(d, k) THEN d ELSE Append(d, <<k, val>>)

DictSet(d, k, val) ==
  IF DictHas(d, k)
  THEN [i \in 1..Len(d) |-> IF d[i][1] = k THEN <<k, val>> ELSE d[i]]
  ELSE Append(d, <<k, val>>)

DictKeys(d) == [i \in 1..Len(d) |-> d[i][1]]

MinOf(a, b) == IF a <= b THEN a ELSE b

RECURSIVE DictZipFrom(_, _, _, _)
DictZipFrom(d, ks, vs, i) ==
  IF i > MinOf(Len(ks), Len(vs)) THEN d
  ELSE DictZipFrom(DictSet(d, ks[i], vs[i]), ks, vs, i + 1)

\* dict(zip(ks, vs))
dict_zip(ks, vs) == DictZipFrom(<<>>, ks, vs, 1)

(***************************************************************************)
(* parse_excel.  A workbook is [valid, header, rows]: the cells of row 1   *)
(* and the rows after it of the active sheet, every row as wide as the     *)
(* sheet (openpyxl pads with None); valid = FALSE is a file                *)
(* load_workbook rejects.                                                  *)
(***************************************************************************)
\* headers = [str(cell.value).strip() for cell in ws[1]]
headers_of(wb) == [i \in 1..Len(wb.header) |-> strip(PyStr(wb.header[i]))]

\* mutant of row_nonempty: only the first cell is looked at
row_first_cell(row) == row[1] # NoneVal

\* any(v is not None for v in row)
row_nonempty(row) == \E i \in 1..Len(row) : row[i] # NoneVal

\* mutant of clean_none: None values are kept
clean_nothing(comp) == comp

\* {k: (v if v is not None else "N/A") for k, v in comp.items()}
clean_none(comp) ==
  [i \in 1..Len(comp) |->
     <<comp[i][1], IF comp[i][2] # NoneVal THEN comp[i][2] ELSE StrVal(S_NA)>>]

\* the body of the loop over ws.iter_rows(min_row=2, values_only=True)
parse_row(headers, row, components) ==
  IF row_nonempty(row)
  THEN Append(components, clean_none(dict_zip(headers, row)))
  ELSE components

RECURSIVE parse_rows(_, _, _)
parse_rows(headers, rows, components) ==
  IF rows = <<>> THEN components
  ELSE parse_rows(headers, Tail(rows), parse_row(headers, Head(rows), components))

parse_excel(wb) == parse_rows(headers_of(wb), wb.rows, <<>>)

(***************************************************************************)
(* The local clock.  clock counts the seconds since 2026-11-05 23:59:58;   *)
(* datetime.datetime.now() reads it as a naive local date and time.        *)
(***************************************************************************)
SecondsPerDay == 24 * 3600

Now(c) ==
  LET secs == (23 * 3600 + 59 * 60 + 58) + c
      rem  == secs % SecondsPerDay
  IN  [year   |-> 2026,
       month  |-> 11,
       day    |-> 5 + (secs \div SecondsPerDay),
       hour   |-> rem \div 3600,
       minute |-> (rem % 3600) \div 60,
       second |-> rem % 60]

Pad2(n) == <<Digit((n \div 10) % 10), Digit(n % 10)>>

Pad4(n) == <<Digit((n \div 1000) % 10), Digit((n \div 100) % 10)>> \o Pad2(n)

\* mutant of strftime_id: '%Y%m%d-%H%M', the seconds left out
strftime_id_minutes(ts) ==
  Pad4(ts.year) \o Pad2(ts.month) \o Pad2(ts.day) \o <<"-">>
    \o Pad2(ts.hour) \o Pad2(ts.minute)

\* timestamp.strftime('%Y%m%d-%H%M%S')
strftime_id(ts) ==
  Pad4(ts.year) \o Pad2(ts.month) \o Pad2(ts.day) \o <<"-">>
    \o Pad2(ts.hour) \o Pad2(ts.minute) \o Pad2(ts.second)

\* timestamp.strftime("%B %d, %Y  %H:%M:%S")
strftime_doc(ts) ==
  MonthNames[ts.month] \o <<" ">> \o Pad2(ts.day) \o <<",", " ">>
    \o Pad4(ts.year) \o <<" ", " ">>
    \o Pad2(ts.hour) \o <<":">> \o Pad2(ts.minute) \o <<":">> \o Pad2(ts.second)

\* datetime.datetime.now().strftime("%Y-%m-%d %H:%M:%S")
strftime_log(ts) ==
  Pad4(ts.year) \o <<"-">> \o Pad2(ts.month) \o <<"-">> \o Pad2(ts.day)
    \o <<" ">>
    \o Pad2(ts.hour) \o <<":">> \o Pad2(ts.minute) \o <<":">> \o Pad2(ts.second)

(***************************************************************************)
(* generate_pdf_report: the identifier, the output path and the summary    *)
(* block of the document.                                                  *)
(***************************************************************************)
\* report_id = f"RPT-{timestamp.strftime('%Y%m%d-%H%M%S')}"
report_id_of(ts) == S_RPT \o strftime_id(ts)

\* project_name.replace(' ', '_')
replace_spaces(s) == [i \in 1..Len(s) |-> IF s[i] = " " THEN "_" ELSE s[i]]

\* filename = f"{OUTPUT_DIR}/{report_id}_{project_name.replace(' ', '_')}.pdf"
filename_of(report_id, project_name) ==
  OUTPUT_DIR \o <<"/">> \o report_id \o <<"_">>
    \o replace_spaces(project_name) \o S_pdf

\* counts[key] = counts.get(key, 0) + 1
count_one(counts, key) == DictSet(counts, key, DictGet(counts, key, 0) + 1)

\* s = str(c.get("Status", "Unknown"))
status_of(c) == PyStr(DictGet(c, S_Status, StrVal(S_Unknown)))

\* mutant of type_of: c.get("Type"), no default
type_no_default(c) == PyStr(DictGet(c, S_Type, NoneVal))

\* t = str(c.get("Type", "Unknown"))
type_of(c) == PyStr(DictGet(c, S_Type, StrVal(S_Unknown)))

RECURSIVE count_statuses(_, _)
count_statuses(components, statuses) ==
  IF components = <<>> THEN statuses
  ELSE count_statuses(Tail(components),
                      count_one(statuses, status_of(Head(components))))

RECURSIVE count_types(_, _)
count_types(components, types) ==
  IF components = <<>> THEN types
  ELSE count_types(Tail(components), count_one(types, type_of(Head(components))))

\* summary_items, lines 170 to 185
summary_items(components) ==
  LET statuses == count_statuses(components, <<>>)
      types    == count_types(components, <<>>)
  IN  << <<S_TotalComponents, IntToStr(Len(components))>>,
         <<S_Approved,        IntToStr(DictGet(statuses, S_Approved, 0))>>,
         <<S_UnderReview,     IntToStr(DictGet(statuses, S_UnderReview, 0))>>,
         <<S_Pending,         IntToStr(DictGet(statuses, S_Pending, 0))>> >>
      \o [i \in 1..Len(types) |->
            <<S_TypePrefix \o types[i][1], IntToStr(types[i][2])>>]

\* what doc.build(story) writes: the meta table and the summary block
document_of(components, project_name, engineer, ts) ==
  [report_id    |-> report_id_of(ts),
   generated_at |-> strftime_doc(ts),
   project      |-> project_name,
   engineer     |-> engineer,
   components   |-> IntToStr(Len(components)),
   status       |-> S_DRAFT,
   summary      |-> summary_items(components)]

(***************************************************************************)
(* The activity log as csv sees it: a sequence of rows, a row a sequence   *)
(* of fields, a field a text.  csv.writer writes str(x) of a field (the    *)
(* empty text for None); csv.DictReader names the fields of every row      *)
(* after the first by the fields of the first, as texts.                   *)
(***************************************************************************)
csv_field(x) == IF x.t = "none" THEN <<>> ELSE x.v

\* writer.writerow(values)
csv_row(values) == [i \in 1..Len(values) |-> csv_field(values[i])]

\* a row as DictReader returns it: short rows are filled with None
reader_row(fieldnames, row) ==
  dict_zip(fieldnames,
           [i \in 1..Len(fieldnames) |->
              IF i <= Len(row) THEN StrVal(row[i]) ELSE NoneVal])

\* rows = [row for row in csv.DictReader(f)]
dict_reader(rows) ==
  IF rows = <<>> THEN <<>>
  ELSE [i \in 1..(Len(rows) - 1) |-> reader_row(rows[1], rows[i + 1])]

\* the data row log_report writes, lines 223 to 227
log_row(report_id, project, component_count, filepath, status, ts) ==
  csv_row(<< StrVal(report_id), StrVal(project), IntVal(component_count),
             StrVal(filepath), StrVal(status), StrVal(strftime_log(ts)) >>)

\* mutant of header_due: the header is written by every append
header_always(file_exists) == TRUE

\* if not file_exists: writer.writerow([...header...])
header_due(file_exists) == ~file_exists

(***************************************************************************)
(* stats (app.py).                                                         *)
(***************************************************************************)
\* code points of the characters a generated_at holds, in ascending order
CharOrder == <<" ", "-", "0", "1", "2", "3", "4", "5", "6", "7", "8", "9", ":">>

CharOrd(c) == CHOOSE i \in 1..Len(CharOrder) : CharOrder[i] = c

\* a < b on str
RECURSIVE TextLess(_, _)
TextLess(a, b) ==
  IF b = <<>> THEN FALSE
  ELSE IF a = <<>> THEN TRUE
  ELSE IF Head(a) = Head(b) THEN TextLess(Tail(a), Tail(b))
  ELSE CharOrd(Head(a)) < CharOrd(Head(b))

RECURSIVE insert_item(_, _)
insert_item(item, s) ==
  IF s = <<>> THEN <<item>>
  ELSE IF TextLess(item[1], Head(s)[1]) THEN <<item>> \o s
  ELSE <<Head(s)>> \o insert_item(item, Tail(s))

\* mutant of sorted_items: d.items(), not sorted
unsorted_items(d) == d

\* sorted(d.items()), the keys of a dict being distinct
RECURSIVE sorted_items(_)
sorted_items(d) ==
  IF d = <<>> THEN <<>>
  ELSE insert_item(d[Len(d)], sorted_items(SubSeq(d, 1, Len(d) - 1)))

\* s[:n]
prefix(s, n) == SubSeq(s, 1, MinOf(n, Len(s)))

\* r.get("status") == "Success"
is_success(r) == DictGet(r, S_status, NoneVal) = StrVal(S_Success)

\* int(r.get("component_count", 0) or 0)
component_count_of(r) ==
  LET x == DictGet(r, S_component_count, IntVal(0))
  IN  IF x.t = "none" \/ x.v = <<>> THEN 0 ELSE ParseInt(x.v)

\* r.get("generated_at", "")[:10]
day_of(r) == prefix(DictGet(r, S_generated_at, StrVal(<<>>)).v, 10)

\* r.get("project", "Unknown")
project_of(r) == PyStr(DictGet(r, S_project, StrVal(S_Unknown)))

RECURSIVE count_success(_)
count_success(rows) ==
  IF rows = <<>> THEN 0
  ELSE (IF is_success(Head(rows)) THEN 1 ELSE 0) + count_success(Tail(rows))

RECURSIVE sum_components(_)
sum_components(rows) ==
  IF rows = <<>> THEN 0
  ELSE component_count_of(Head(rows)) + sum_components(Tail(rows))

RECURSIVE group_by_day(_, _)
group_by_day(rows, by_day) ==
  IF rows = <<>> THEN by_day
  ELSE group_by_day(Tail(rows), count_one(by_day, day_of(Head(rows))))

RECURSIVE group_by_project(_, _)
group_by_project(rows, by_project) ==
  IF rows = <<>> THEN by_project
  ELSE group_by_project(Tail(rows), count_one(by_project, project_of(Head(rows))))

stats(file_exists, file_rows) ==
  IF ~file_exists
  THEN [total |-> 0, success |-> 0, error |-> 0, total_components |-> 0,
        by_day |-> <<>>, by_project |-> <<>>]
  ELSE LET rows       == dict_reader(file_rows)
           total      == Len(rows)
           success    == count_success(rows)
           by_day     == sorted_items(group_by_day(rows, <<>>))
           by_project == group_by_project(rows, <<>>)
       IN  [total            |-> total,
            success          |-> success,
            error            |-> total - success,
            total_components |-> sum_components(rows),
            by_day     |-> [i \in 1..Len(by_day) |->
                              [date |-> by_day[i][1], count |-> by_day[i][2]]],
            by_project |-> [i \in 1..Len(by_project) |->
                              [project |-> by_project[i][1],
                               count   |-> by_project[i][2]]]]

(***************************************************************************)
(* run_pipeline, line 244: os.path.basename(pdf_path).split("_")[0]        *)
(***************************************************************************)
basename(path) ==
  LET seps == {i \in 1..Len(path) : path[i] = "/"}
  IN  IF seps = {} THEN path
      ELSE SubSeq(path, (CHOOSE i \in seps : \A j \in seps : j <= i) + 1, Len(path))

\* s.split(sep)[0]
split_first(s, sep) ==
  LET hits == {i \in 1..Len(s) : s[i] = sep}
  IN  IF hits = {} THEN s
      ELSE SubSeq(s, 1, (CHOOSE i \in hits : \A j \in hits : i <= j) - 1)

\* result = {"status": "error", "message": "", "filepath": "", "report_id": ""}
InitialResult ==
  [status |-> "error", message |-> <<>>, filepath |-> <<>>, report_id |-> <<>>]

\* the result of lines 249 to 255
success_result(pdf_path, report_id, components) ==
  [status          |-> "success",
   message         |-> S_ReportGenerated \o pdf_path,
   filepath        |-> pdf_path,
   report_id       |-> report_id,
   component_count |-> Len(components)]

\* mutant of catches: except OSError, which a rejected workbook is not
catches_os_error(e) == e.stage \in {"build", "log"}

\* except Exception as e: every failure of a stage is an Exception
catches(e) == e.stage \in {"extract", "build", "log"}

\* mutant of except_result: a failed log append does not spoil the run
except_best_effort(res, e) ==
  [res EXCEPT !.message = e.detail,
              !.status = IF e.stage = "log" THEN "success" ELSE @]

\* result["message"] = str(e)
except_result(res, e) == [res EXCEPT !.message = e.detail]

(***************************************************************************)
(* Inputs.                                                                 *)
(***************************************************************************)
S_AutoDoc == <<"A", "u", "t", "o", "D", "o", "c">>
S_Relay == <<"R", "e", "l", "a", "y">>

Procs == {1, 2}

\* project names: with a space, with an underscore, with a path separator
Projects == {<<"a", " ", "b">>, <<"a", "_", "b">>, <<"a", "/", "b">>}

BadWorkbook == [valid |-> FALSE, header |-> <<>>, rows |-> <<>>]

HeaderOnlyWorkbook ==
  [valid |-> TRUE, header |-> <<StrVal(S_Status), StrVal(S_Type)>>, rows |-> <<>>]

SampleWorkbook ==
  [valid  |-> TRUE,
   header |-> <<StrVal(S_Status), StrVal(S_Type)>>,
   rows   |-> << <<StrVal(S_Approved), StrVal(S_Relay)>>,
                 <<NoneVal, NoneVal>>,
                 <<StrVal(S_Pending), NoneVal>> >>]

Workbooks == {BadWorkbook, HeaderOnlyWorkbook, SampleWorkbook}

\* str(e) of the failure of a stage, as the library or the system words it
ExcDetail(stage) ==
  CASE stage = "extract" -> <<"n", "o", "t", " ", "a", " ", "z", "i", "p", " ", "f", "i", "l", "e">>
    [] stage = "build"   -> <<"n", "o", " ", "s", "u", "c", "h", " ", "d", "i", "r", "e", "c", "t", "o", "r", "y">>
    [] stage = "log"     -> <<"p", "e", "r", "m", "i", "s", "s", "i", "o", "n", " ", "d", "e", "n", "i", "e", "d">>

NoExc == [stage |-> "none", detail |-> <<>>]

NoFrame ==
  [excel |-> BadWorkbook, project_name |-> <<>>, engineer |-> <<>>,
   components |-> <<>>, pdf_path |-> <<>>, report_id |-> <<>>,
   exc |-> NoExc, log0 |-> <<FALSE, <<>>>>]

NoLogFrame ==
  [report_id |-> <<>>, project |-> <<>>, component_count |-> 0,
   filepath |-> <<>>, status |-> <<>>, file_exists |-> FALSE,
   caller |-> "none"]

NoHistory ==
  [calls |-> [p \in Procs |-> 0], succeeded |-> 0, log_failed |-> FALSE,
   builds |-> <<>>, appended |-> <<>>]

(***************************************************************************)
(* State.                                                                  *)
(*   clock      seconds the local clock has advanced                       *)
(*   logExists  os.path.isfile(LOG_FILE)                                   *)
(*   logRows    the rows of LOG_FILE                                       *)
(*   files      the documents under OUTPUT_DIR, by path                    *)
(*   pc         where each caller stands                                   *)
(*   rp         the locals of each caller's run_pipeline                   *)
(*   lr         the arguments and locals of each caller's log_report       *)
(*   result     the dict each caller's run_pipeline returns                *)
(*   hist       history: calls made, runs that returned success, whether   *)
(*              a log append failed, the builds in order, and the          *)
(*              arguments and clock readings of the data rows appended     *)
(*   view       the last response of /api/stats with the log it read       *)
(***************************************************************************)
VARIABLES clock, logExists, logRows, files, pc, rp, lr, result, hist, view

vars == <<clock, logExists, logRows, files, pc, rp, lr, result, hist, view>>

Init ==
  /\ clock = 0
  /\ logExists = FALSE
  /\ logRows = <<>>
  /\ files = <<>>
  /\ pc = [p \in Procs |-> "idle"]
  /\ rp = [p \in Procs |-> NoFrame]
  /\ lr = [p \in Procs |-> NoLogFrame]
  /\ result = [p \in Procs |-> InitialResult]
  /\ hist = NoHistory
  /\ view = <<>>

\* the local clock advances
Tick ==
  /\ clock < MaxClock
  /\ clock' = clock + 1
  /\ UNCHANGED <<logExists, logRows, files, pc, rp, lr, result, hist, view>>

\* run_pipeline(excel_path, project_name, engineer), line 236
Call(p, wb, project_name, engineer) ==
  /\ pc[p] \in {"idle", "done"}
  /\ hist.calls[p] < MaxRuns
  /\ pc' = [pc EXCEPT ![p] = "parse"]
  /\ rp' = [rp EXCEPT ![p] =
              [excel |-> wb, project_name |-> project_name,
               engineer |-> engineer, components |-> <<>>,
               pdf_path |-> <<>>, report_id |-> <<>>, exc |-> NoExc,
               log0 |-> <<logExists, logRows>>]]
  /\ result' = [result EXCEPT ![p] = InitialResult]
  /\ hist' = [hist EXCEPT !.calls[p] = @ + 1]
  /\ UNCHANGED <<clock, logExists, logRows, files, lr, view>>

\* components = parse_excel(excel_path), line 239
Parse(p) ==
  /\ pc[p] = "parse"
  /\ IF rp[p].excel.valid
     THEN /\ rp' = [rp EXCEPT ![p].components = parse_excel(rp[p].excel)]
          /\ pc' = [pc EXCEPT ![p] = "build"]
     ELSE /\ rp' = [rp EXCEPT ![p].exc =
                      [stage |-> "extract", detail |-> ExcDetail("extract")]]
          /\ pc' = [pc EXCEPT ![p] = "raised"]
  /\ UNCHANGED <<clock, logExists, logRows, files, lr, result, hist, view>>

\* pdf_path = generate_pdf_report(...), lines 243 and 244, and the call of
\* log_report of line 247
Build(p) ==
  /\ pc[p] = "build"
  /\ LET timestamp == Now(clock)
         report_id == report_id_of(timestamp)
         filename  == filename_of(report_id, rp[p].project_name)
         doc       == document_of(rp[p].components, rp[p].project_name,
                                  rp[p].engineer, timestamp)
         derived   == split_first(basename(filename), "_")
     IN  /\ files' = (filename :> [doc |-> doc, build |-> Len(hist.builds) + 1])
                       @@ files
         /\ rp' = [rp EXCEPT ![p].pdf_path = filename, ![p].report_id = derived]
         /\ lr' = [lr EXCEPT ![p] =
                     [report_id |-> derived, project |-> rp[p].project_name,
                      component_count |-> Len(rp[p].components),
                      filepath |-> filename, status |-> S_Success,
                      file_exists |-> FALSE, caller |-> "run_pipeline"]]
         /\ hist' = [hist EXCEPT !.builds =
                       Append(@, [now |-> timestamp, report_id |-> report_id,
                                  filename |-> filename,
                                  project |-> rp[p].project_name])]
  /\ pc' = [pc EXCEPT ![p] = "log_check"]
  /\ UNCHANGED <<clock, logExists, logRows, result, view>>

\* generate_pdf_report raises: the document cannot be written (the directory
\* of the path is missing, the storage is full or read-only)
BuildFail(p) ==
  /\ pc[p] = "build"
  /\ rp' = [rp EXCEPT ![p].exc =
              [stage |-> "build", detail |-> ExcDetail("build")]]
  /\ pc' = [pc EXCEPT ![p] = "raised"]
  /\ UNCHANGED <<clock, logExists, logRows, files, lr, result, hist, view>>

\* file_exists = os.path.isfile(LOG_FILE), line 217
LogCheck(p) ==
  /\ pc[p] = "log_check"
  /\ lr' = [lr EXCEPT ![p].file_exists = logExists]
  /\ pc' = [pc EXCEPT ![p] = "log_open"]
  /\ UNCHANGED <<clock, logExists, logRows, files, rp, result, hist, view>>

\* open(LOG_FILE, "a", newline=""), line 218: creates the file when absent
LogOpen(p) ==
  /\ pc[p] = "log_open"
  /\ logExists' = TRUE
  /\ pc' = [pc EXCEPT ![p] = "log_header"]
  /\ UNCHANGED <<clock, logRows, files, rp, lr, result, hist, view>>

\* open raises: the log cannot be opened, and is not created
LogOpenFail(p) ==
  /\ pc[p] = "log_open"
  /\ rp' = [rp EXCEPT ![p].exc = [stage |-> "log", detail |-> ExcDetail("log")]]
  /\ hist' = [hist EXCEPT !.log_failed = TRUE]
  /\ pc' = [pc EXCEPT ![p] = "raised"]
  /\ UNCHANGED <<clock, logExists, logRows, files, lr, result, view>>

\* the header row, lines 220 to 222
LogHeader(p) ==
  /\ pc[p] = "log_header"
  /\ logRows' = IF header_due(lr[p].file_exists)
                THEN Append(logRows, LogHeaderRow)
                ELSE logRows
  /\ pc' = [pc EXCEPT ![p] = "log_row"]
  /\ UNCHANGED <<clock, logExists, files, rp, lr, result, hist, view>>

\* the data row, lines 223 to 227; log_report returns
LogRow(p) ==
  /\ pc[p] = "log_row"
  /\ logRows' = Append(logRows,
                       log_row(lr[p].report_id, lr[p].project,
                               lr[p].component_count, lr[p].filepath,
                               lr[p].status, Now(clock)))
  /\ hist' = [hist EXCEPT !.appended =
                Append(@, [component_count |-> lr[p].component_count,
                           project |-> lr[p].project, status |-> lr[p].status,
                           now |-> Now(clock)])]
  /\ pc' = [pc EXCEPT ![p] =
              IF lr[p].caller = "run_pipeline" THEN "logged" ELSE "idle"]
  /\ UNCHANGED <<clock, logExists, files, rp, lr, result, view>>

\* a write to the open log raises: nothing more is written
LogWriteFail(p) ==
  /\ pc[p] \in {"log_header", "log_row"}
  /\ rp' = [rp EXCEPT ![p].exc = [stage |-> "log", detail |-> ExcDetail("log")]]
  /\ hist' = [hist EXCEPT !.log_failed = TRUE]
  /\ pc' = [pc EXCEPT ![p] = "raised"]
  /\ UNCHANGED <<clock, logExists, logRows, files, lr, result, view>>

\* lines 249 to 256 and 262: the success result is returned
Succeed(p) ==
  /\ pc[p] = "logged"
  /\ result' = [result EXCEPT ![p] =
                  success_result(rp[p].pdf_path, rp[p].report_id,
                                 rp[p].components)]
  /\ hist' = [hist EXCEPT !.succeeded = @ + 1]
  /\ pc' = [pc EXCEPT ![p] = "done"]
  /\ UNCHANGED <<clock, logExists, logRows, files, rp, lr, view>>

\* lines 258 to 262: the handler, and the return of the error result; an
\* exception the handler does not catch leaves run_pipeline
Except(p) ==
  /\ pc[p] = "raised"
  /\ IF catches(rp[p].exc)
     THEN /\ result' = [result EXCEPT ![p] = except_result(@, rp[p].exc)]
          /\ pc' = [pc EXCEPT ![p] = "done"]
     ELSE /\ result' = result
          /\ pc' = [pc EXCEPT ![p] = "escaped"]
  /\ UNCHANGED <<clock, logExists, logRows, files, rp, lr, hist, view>>

\* log_report(report_id, project, component_count, filepath, status) called
\* on its own, as the tests call it
DirectLog(p, a) ==
  /\ pc[p] = "idle"
  /\ hist.calls[p] < MaxRuns
  /\ lr' = [lr EXCEPT ![p] =
              [report_id |-> a.report_id, project |-> a.project,
               component_count |-> a.component_count,
               filepath |-> a.filepath, status |-> a.status,
               file_exists |-> FALSE, caller |-> "direct"]]
  /\ hist' = [hist EXCEPT !.calls[p] = @ + 1]
  /\ pc' = [pc EXCEPT ![p] = "log_check"]
  /\ UNCHANGED <<clock, logExists, logRows, files, rp, result, view>>

\* GET /api/stats
StatsView ==
  /\ view' = << [exists |-> logExists, rows |-> logRows,
                 appended |-> hist.appended,
                 body |-> stats(logExists, logRows)] >>
  /\ UNCHANGED <<clock, logExists, logRows, files, pc, rp, lr, result, hist>>

\* the local clock is set back (it is wall time, not monotonic)
ClockSetBack ==
  /\ clock > 0
  /\ clock' = clock - 1
  /\ UNCHANGED <<logExists, logRows, files, pc, rp, lr, result, hist, view>>

Next ==
  \/ Tick
  \/ \E wb \in Workbooks, project_name \in Projects :
       Call(1, wb, project_name, S_AutoDoc)
  \/ Parse(1)
  \/ Build(1)
  \/ BuildFail(1)
  \/ LogCheck(1)
  \/ LogOpen(1)
  \/ LogOpenFail(1)
  \/ LogHeader(1)
  \/ LogRow(1)
  \/ LogWriteFail(1)
  \/ Succeed(1)
  \/ Except(1)

\* sequential calls of run_pipeline by one caller
Spec == Init /\ [][Next]_vars

(***************************************************************************)
(* Claims about sequential calls of run_pipeline (Spec).                   *)
(***************************************************************************)
\* the log as it is after K appends: absent for K = 0, else the header row
\* and K data rows of six fields with status Success
LogOfRuns(k) ==
  IF k = 0
  THEN ~logExists /\ logRows = <<>>
  ELSE /\ logExists
       /\ Len(logRows) = k + 1
       /\ logRows[1] = LogHeaderRow
       /\ \A i \in 2..Len(logRows) :
            /\ logRows[i] # LogHeaderRow
            /\ Len(logRows[i]) = 6
            /\ logRows[i][5] = S_Success

\* C1: as long as no run has failed in its log stage, whenever no append is
\* under way the log is absent if no run has succeeded and is otherwise one
\* header row followed by one data row per successful run; a run that has
\* failed in extraction or build has left the log as it found it.
C1_OneHeaderAndOneRowPerSuccess ==
  ~hist.log_failed =>
    /\ pc[1] \in {"idle", "parse", "build", "raised", "done"} =>
         LogOfRuns(hist.succeeded)
    /\ (pc[1] \in {"raised", "done"} /\ rp[1].exc.stage \in {"extract", "build"}) =>
         <<logExists, logRows>> = rp[1].log0

\* C1 witness: a run has failed in extraction or build after a successful one
C1_Witness ==
  /\ pc[1] = "done"
  /\ ~hist.log_failed
  /\ hist.succeeded = 1
  /\ hist.calls[1] = 2
  /\ rp[1].exc.stage \in {"extract", "build"}
  /\ Len(logRows) = 2

\* C2: no failure leaves run_pipeline as an exception; the status of the
\* result is always "success" or "error"; and a run in which a stage failed
\* returns status "error", the failure's detail as the message, and an empty
\* filepath and report_id.
C2_FailureBecomesErrorOutcome ==
  /\ pc[1] # "escaped"
  /\ result[1].status \in {"success", "error"}
  /\ (pc[1] = "done" /\ rp[1].exc.stage # "none") =>
       /\ result[1].status = "error"
       /\ result[1].message = ExcDetail(rp[1].exc.stage)
       /\ result[1].filepath = <<>>
       /\ result[1].report_id = <<>>

\* C2 witness: a run has returned after its log append failed, the document
\* being written
C2_Witness ==
  /\ pc[1] = "done"
  /\ rp[1].exc.stage = "log"
  /\ rp[1].pdf_path \in DOMAIN files
  /\ result[1].status = "error"

\* C8: of any two builds, those read off the clock in different seconds have
\* different report identifiers and different output paths; those with the
\* same identifier were read off the clock in the same second, and if their
\* project names are equal too they have the same path, which holds the
\* document of a later build than the first.
C8_ReportIdPerClockSecond ==
  \A i, j \in 1..Len(hist.builds) :
    i < j =>
      LET a == hist.builds[i]
          b == hist.builds[j]
      IN  /\ a.now # b.now =>
                /\ a.report_id # b.report_id
                /\ a.filename # b.filename
          /\ a.report_id = b.report_id => a.now = b.now
          /\ (a.report_id = b.report_id /\ a.project = b.project) =>
                /\ a.filename = b.filename
                /\ files[a.filename].build >= j
                /\ Cardinality(DOMAIN files) < Len(hist.builds)

\* C8 witness: two builds of one project in the same clock second
C8_Witness ==
  /\ Len(hist.builds) = 2
  /\ hist.builds[1].now = hist.builds[2].now
  /\ hist.builds[1].project = hist.builds[2].project
  /\ files[hist.builds[1].filename].build = 2

\* the date and time digits of a report identifier RPT-YYYYMMDD-HHMMSS
id_digits(report_id) == SubSeq(report_id, 5, 12) \o SubSeq(report_id, 14, 19)

\* the date and time digits of a generated_at YYYY-MM-DD HH:MM:SS
log_digits(generated_at) ==
  SubSeq(generated_at, 1, 4) \o SubSeq(generated_at, 6, 7)
    \o SubSeq(generated_at, 9, 10) \o SubSeq(generated_at, 12, 13)
    \o SubSeq(generated_at, 15, 16) \o SubSeq(generated_at, 18, 19)

\* C10: when a run has returned success, the generated_at of the log row it
\* appended denotes the clock second its report identifier was derived from.
C10_LogRowCarriesBuildTimestamp ==
  (pc[1] = "done" /\ result[1].status = "success") =>
    log_digits(logRows[Len(logRows)][6])
      = id_digits(hist.builds[Len(hist.builds)].report_id)

\* C11: when a run has returned success, the report_id of its result and of
\* the log row it appended is the identifier generate_pdf_report computed
\* and put in the document at the returned path, whatever the project name;
\* and the component_count of the result is the count of the log row and the
\* number of records parse_excel extracted.
C11_OutcomeIdIsDocumentId ==
  (pc[1] = "done" /\ result[1].status = "success") =>
    LET row   == logRows[Len(logRows)]
        built == hist.builds[Len(hist.builds)]
    IN  /\ result[1].report_id = built.report_id
        /\ row[1] = built.report_id
        /\ files[result[1].filepath].doc.report_id = result[1].report_id
        /\ result[1].component_count = Len(parse_excel(rp[1].excel))
        /\ row[3] = IntToStr(result[1].component_count)

\* the number of data rows among the rows of a log
data_rows(rows) == Cardinality({i \in 1..Len(rows) : rows[i] # LogHeaderRow})

\* the number of data rows the current run_pipeline call has appended
appended_by_run == data_rows(logRows) - data_rows(rp[1].log0[2])

\* C12: a run appends no data row before its document is written and at
\* most one in all; a row it has appended follows the document of its own
\* build on storage; a run that has returned has status "success" exactly
\* if it appended one data row; and a run whose log append failed returns
\* status "error" with empty filepath and report_id, having appended no
\* row, while its document is on storage.
C12_SuccessIffOneRowAfterDocument ==
  /\ appended_by_run \in {0, 1}
  /\ pc[1] \in {"parse", "build"} => appended_by_run = 0
  /\ appended_by_run = 1 =>
       /\ rp[1].pdf_path \in DOMAIN files
       /\ files[rp[1].pdf_path].build = Len(hist.builds)
       /\ logRows[Len(logRows)][4] = rp[1].pdf_path
  /\ pc[1] = "done" =>
       (result[1].status = "success" <=> appended_by_run = 1)
  /\ (pc[1] = "done" /\ rp[1].exc.stage = "log") =>
       /\ result[1].status = "error"
       /\ result[1].filepath = <<>>
       /\ result[1].report_id = <<>>
       /\ appended_by_run = 0
       /\ rp[1].pdf_path \in DOMAIN files

\* C12 witness: after a run that returned success, a second run has written
\* its document, failed to append its row and returned
C12_Witness ==
  /\ pc[1] = "done"
  /\ hist.calls[1] = 2
  /\ hist.succeeded = 1
  /\ rp[1].exc.stage = "log"
  /\ Len(hist.builds) = 2
  /\ files[rp[1].pdf_path].build = 2
  /\ data_rows(logRows) = 1
  /\ result[1].status = "error"

(***************************************************************************)
(* Other specifications over the same state.                               *)
(***************************************************************************)
\* the arguments of direct calls of log_report
DirectArgs ==
  { [report_id |-> <<"R", "1">>, project |-> <<"p">>, component_count |-> 0,
     filepath |-> <<"f">>, status |-> S_Success],
    [report_id |-> <<"R", "2">>, project |-> <<"a", " ", "b">>,
     component_count |-> 12, filepath |-> <<"f">>, status |-> S_Success],
    [report_id |-> <<"R", "3">>, project |-> <<"p">>, component_count |-> 7,
     filepath |-> <<"g">>, status |-> S_Error] }

NextStats ==
  \/ Tick
  \/ ClockSetBack
  \/ \E a \in DirectArgs : DirectLog(1, a)
  \/ LogCheck(1)
  \/ LogOpen(1)
  \/ LogHeader(1)
  \/ LogRow(1)
  \/ StatsView

\* sequential appends by one caller, and the statistics view
SpecStats == Init /\ [][NextStats]_vars

NextConc ==
  \E p \in Procs :
    \/ \E a \in DirectArgs : DirectLog(p, a)
    \/ LogCheck(p)
    \/ LogOpen(p)
    \/ LogHeader(p)
    \/ LogRow(p)

\* two callers of log_report whose steps interleave
SpecConc == Init /\ [][NextConc]_vars

(***************************************************************************)
(* parse_excel on enumerated worksheets (SpecParse) and                    *)
(* generate_pdf_report on enumerated records (SpecPdf): the caller stands  *)
(* before the call and the one action makes it.                            *)
(***************************************************************************)
HeaderCells ==
  {NoneVal, StrVal(<<"a">>), StrVal(<<" ", "a", " ">>), StrVal(<<"b">>)}

Cells == {NoneVal, StrVal(<<"x">>)}

SheetsOfWidth(w) ==
  { [valid |-> TRUE, header |-> h, rows |-> r] :
      h \in [1..w -> HeaderCells],
      r \in UNION {[1..n -> [1..w -> Cells]] : n \in 0..MaxRows} }

Sheets == UNION {SheetsOfWidth(w) : w \in 1..MaxCols}

InitParse ==
  /\ clock = 0
  /\ logExists = FALSE
  /\ logRows = <<>>
  /\ files = <<>>
  /\ lr = [p \in Procs |-> NoLogFrame]
  /\ result = [p \in Procs |-> InitialResult]
  /\ hist = [NoHistory EXCEPT !.calls[1] = 1]
  /\ view = <<>>
  /\ pc = [p \in Procs |-> IF p = 1 THEN "parse" ELSE "idle"]
  /\ \E wb \in Sheets \cup {BadWorkbook} :
       rp = [p \in Procs |->
               IF p = 1
               THEN [NoFrame EXCEPT !.excel = wb, !.project_name = <<"p">>,
                                    !.engineer = S_AutoDoc]
               ELSE NoFrame]

NextParse == Parse(1)

SpecParse == InitParse /\ [][NextParse]_vars

\* a key that a record does not hold
Absent == [t |-> "absent", v |-> <<>>]

StatusValues ==
  {Absent, NoneVal, StrVal(S_Approved), StrVal(S_UnderReview), StrVal(S_Pending)}

TypeValues ==
  {Absent, StrVal(S_Unknown), StrVal(S_Relay), IntVal(1), StrVal(<<"1">>)}

RecordOf(st, ty) ==
  (IF st = Absent THEN <<>> ELSE << <<S_Status, st>> >>)
    \o (IF ty = Absent THEN <<>> ELSE << <<S_Type, ty>> >>)

Records == {RecordOf(st, ty) : st \in StatusValues, ty \in TypeValues}

RecordSeqs == UNION {[1..n -> Records] : n \in 0..MaxRecords}

InitPdf ==
  /\ clock = 0
  /\ logExists = FALSE
  /\ logRows = <<>>
  /\ files = <<>>
  /\ lr = [p \in Procs |-> NoLogFrame]
  /\ result = [p \in Procs |-> InitialResult]
  /\ hist = [NoHistory EXCEPT !.calls[1] = 1]
  /\ view = <<>>
  /\ pc = [p \in Procs |-> IF p = 1 THEN "build" ELSE "idle"]
  /\ \E cs \in RecordSeqs :
       rp = [p \in Procs |->
               IF p = 1
               THEN [NoFrame EXCEPT !.components = cs, !.project_name = <<"p">>,
                                    !.engineer = S_AutoDoc]
               ELSE NoFrame]

NextPdf == Build(1)

SpecPdf == InitPdf /\ [][NextPdf]_vars

\* the header name of column j, the rows with a cell that is not None, the
\* k-th member of a set of row numbers, and the cell as a record shows it
NameOfColumn(wb, j) == strip(PyStr(wb.header[j]))

NonEmptyRows(wb) ==
  {i \in 1..Len(wb.rows) :
     \E j \in 1..Len(wb.rows[i]) : wb.rows[i][j] # NoneVal}

KthOf(S, k) == CHOOSE i \in S : Cardinality({x \in S : x <= i}) = k

LastOfItsName(wb, j) ==
  \A j2 \in 1..Len(wb.header) :
    j2 > j => NameOfColumn(wb, j2) # NameOfColumn(wb, j)

Rendered(cell) == IF cell = NoneVal THEN StrVal(S_NA) ELSE cell

ValuesAt(rec, key) == {rec[i][2] : i \in {x \in 1..Len(rec) : rec[x][1] = key}}

\* C3: parse_excel returns as many records as rows after the header have a
\* cell that is not empty, and its k-th record is that of the k-th such row
\* (it shows the row's cell under every header name, the last column of a
\* repeated name); rows whose cells are all empty give no record.
C3_OneRecordPerNonEmptyRow ==
  (pc[1] = "build") =>
    LET wb  == rp[1].excel
        out == rp[1].components
        ne  == NonEmptyRows(wb)
    IN  /\ Len(out) = Cardinality(ne)
        /\ \A k \in 1..Len(out) :
             \A j \in 1..Len(wb.header) :
               LastOfItsName(wb, j) =>
                 ValuesAt(out[k], NameOfColumn(wb, j))
                   = {Rendered(wb.rows[KthOf(ne, k)][j])}

\* C3 witness: a sheet whose first data row is empty and whose second is not
\* has been parsed to one record
C3_Witness ==
  /\ pc[1] = "build"
  /\ Len(rp[1].excel.rows) = 2
  /\ NonEmptyRows(rp[1].excel) = {2}
  /\ Len(rp[1].components) = 1

\* C4, as claimed: every record has the keys of the first record, the
\* trimmed header names, and every empty cell of a record's row shows in the
\* record as "N/A" under its column's header name.
C4_EveryEmptyCellIsNA ==
  (pc[1] = "build") =>
    LET wb  == rp[1].excel
        out == rp[1].components
        ne  == NonEmptyRows(wb)
    IN  \A k \in 1..Len(out) :
          /\ DictKeys(out[k]) = DictKeys(out[1])
          /\ {out[k][i][1] : i \in 1..Len(out[k])}
               = {NameOfColumn(wb, j) : j \in 1..Len(wb.header)}
          /\ \A j \in 1..Len(wb.header) :
               wb.rows[KthOf(ne, k)][j] = NoneVal =>
                 ValuesAt(out[k], NameOfColumn(wb, j)) = {StrVal(S_NA)}

\* C4, amended: every record has the keys of the first record, the trimmed
\* header names; every empty cell in a column that is the last of its header
\* name shows in the record as "N/A"; and no value of a record is None or
\* the empty text.
C4_EmptyCellOfLastColumnIsNA ==
  (pc[1] = "build") =>
    LET wb  == rp[1].excel
        out == rp[1].components
        ne  == NonEmptyRows(wb)
    IN  \A k \in 1..Len(out) :
          /\ DictKeys(out[k]) = DictKeys(out[1])
          /\ {out[k][i][1] : i \in 1..Len(out[k])}
               = {NameOfColumn(wb, j) : j \in 1..Len(wb.header)}
          /\ \A j \in 1..Len(wb.header) :
               (LastOfItsName(wb, j) /\ wb.rows[KthOf(ne, k)][j] = NoneVal) =>
                 ValuesAt(out[k], NameOfColumn(wb, j)) = {StrVal(S_NA)}
          /\ \A i \in 1..Len(out[k]) :
               out[k][i][2] # NoneVal /\ out[k][i][2].v # <<>>

\* C4 witness: a row with an empty cell in its last column has been parsed
C4_Witness ==
  /\ pc[1] = "build"
  /\ Len(rp[1].excel.header) = 2
  /\ NameOfColumn(rp[1].excel, 1) # NameOfColumn(rp[1].excel, 2)
  /\ Len(rp[1].excel.rows) = 2
  /\ rp[1].excel.rows[1] = <<StrVal(<<"x">>), StrVal(<<"x">>)>>
  /\ rp[1].excel.rows[2] = <<StrVal(<<"x">>), NoneVal>>
  /\ Len(rp[1].components) = 2
  /\ rp[1].components[2][2][2] = StrVal(S_NA)

\* C5: a record has one key per distinct header name, and under each name
\* the cell, as a record shows it, of the last column that carries the name.
C5_LastColumnOfANameWins ==
  (pc[1] = "build") =>
    LET wb    == rp[1].excel
        out   == rp[1].components
        ne    == NonEmptyRows(wb)
        cols  == 1..Len(wb.header)
        names == {NameOfColumn(wb, j) : j \in cols}
    IN  \A k \in 1..Len(out) :
          /\ Len(out[k]) = Cardinality(names)
          /\ \A n \in names :
               LET last == CHOOSE j \in cols :
                             /\ NameOfColumn(wb, j) = n
                             /\ LastOfItsName(wb, j)
               IN  /\ Cardinality({i \in 1..Len(out[k]) : out[k][i][1] = n}) = 1
                   /\ ValuesAt(out[k], n)
                        = {Rendered(wb.rows[KthOf(ne, k)][last])}

\* C5 witness: two columns carry one name once trimmed, and a row with a
\* value in the first and none in the second has become a record of one key
C5_Witness ==
  /\ pc[1] = "build"
  /\ rp[1].excel.header = <<StrVal(<<"a">>), StrVal(<<" ", "a", " ">>)>>
  /\ rp[1].excel.rows = << <<StrVal(<<"x">>), NoneVal>> >>
  /\ rp[1].components = << << <<(<<"a">>), StrVal(S_NA)>> >> >>

\* str() of the value a record holds under a key, "Unknown" without the key
Coerced(c, key) ==
  LET hits == {i \in 1..Len(c) : c[i][1] = key}
  IN  IF hits = {} THEN S_Unknown
      ELSE LET x == c[CHOOSE i \in hits : TRUE][2]
           IN  IF x = NoneVal THEN S_None ELSE x.v

RECURSIVE SeqSum(_)
SeqSum(ns) == IF ns = <<>> THEN 0 ELSE Head(ns) + SeqSum(Tail(ns))

FirstIndex(S) == CHOOSE i \in S : \A j \in S : i <= j

DayKey(ts) ==
  Pad4(ts.year) \o <<"-">> \o Pad2(ts.month) \o <<"-">> \o Pad2(ts.day)

DayNumber(ts) == (ts.year * 12 + ts.month) * 31 + ts.day

\* C7: a response of the statistics view describes the log it read (the
\* header row, then the rows appended, in order): total is the number of
\* data rows, success the rows appended with status Success,
\* error the rest, total_components the sum of the counts appended, by_day
\* one entry per day (first 10 characters of generated_at) in ascending day
\* order with the rows of that day, by_project one entry per project in
\* first-seen order with its rows; the counts of each list sum to total; and
\* with no log store everything is 0 or empty.
C7_StatsDescribeTheLog ==
  \A k \in 1..Len(view) :
    LET v    == view[k]
        ap   == v.appended
        b    == v.body
        idx  == 1..Len(ap)
        rowsOfDay(d)     == {i \in idx : DayKey(ap[i].now) = d}
        rowsOfProject(q) == {i \in idx : ap[i].project = q}
    IN  IF ~v.exists
        THEN b = [total |-> 0, success |-> 0, error |-> 0,
                  total_components |-> 0, by_day |-> <<>>, by_project |-> <<>>]
        ELSE /\ v.rows # <<>> => v.rows[1] = LogHeaderRow
             /\ \A i \in idx :
                  /\ v.rows[i + 1][2] = ap[i].project
                  /\ v.rows[i + 1][5] = ap[i].status
                  /\ SubSeq(v.rows[i + 1][6], 1, 10) = DayKey(ap[i].now)
             /\ b.total = Len(ap)
             /\ b.total = IF v.rows = <<>> THEN 0 ELSE Len(v.rows) - 1
             /\ b.success = Cardinality({i \in idx : ap[i].status = S_Success})
             /\ b.error = b.total - b.success
             /\ b.success + b.error = b.total
             /\ b.total_components
                  = SeqSum([i \in idx |-> ap[i].component_count])
             /\ Len(b.by_day) = Cardinality({DayKey(ap[i].now) : i \in idx})
             /\ \A i \in 1..Len(b.by_day) :
                  /\ rowsOfDay(b.by_day[i].date) # {}
                  /\ b.by_day[i].count = Cardinality(rowsOfDay(b.by_day[i].date))
                  /\ \A j \in 1..Len(b.by_day) :
                       i < j =>
                         DayNumber(ap[FirstIndex(rowsOfDay(b.by_day[i].date))].now)
                           < DayNumber(ap[FirstIndex(rowsOfDay(b.by_day[j].date))].now)
             /\ SeqSum([i \in 1..Len(b.by_day) |-> b.by_day[i].count]) = b.total
             /\ Len(b.by_project) = Cardinality({ap[i].project : i \in idx})
             /\ \A i \in 1..Len(b.by_project) :
                  /\ rowsOfProject(b.by_project[i].project) # {}
                  /\ b.by_project[i].count
                       = Cardinality(rowsOfProject(b.by_project[i].project))
                  /\ \A j \in 1..Len(b.by_project) :
                       i < j =>
                         FirstIndex(rowsOfProject(b.by_project[i].project))
                           < FirstIndex(rowsOfProject(b.by_project[j].project))
             /\ SeqSum([i \in 1..Len(b.by_project) |-> b.by_project[i].count])
                  = b.total

\* C7 witness: the view has read a log of two rows of two days, the later
\* day appended first, of two projects, one row with a status other than
\* Success
C7_Witness ==
  /\ view # <<>>
  /\ Len(view[1].appended) = 2
  /\ DayNumber(view[1].appended[1].now) > DayNumber(view[1].appended[2].now)
  /\ view[1].appended[1].project # view[1].appended[2].project
  /\ view[1].appended[1].status = S_Error
  /\ view[1].body.total = 2
  /\ view[1].body.total_components = 19

(***************************************************************************)
(* Claims about concurrent calls of log_report (SpecConc).                 *)
(***************************************************************************)
\* C9: whenever the log holds a row, its first row is the header row and no
\* other row is a header row.
C9_HeaderOnceAndFirst ==
  logRows # <<>> =>
    /\ logRows[1] = LogHeaderRow
    /\ Cardinality({i \in 1..Len(logRows) : logRows[i] = LogHeaderRow}) = 1

====
